---- MODULE Spec2Model ----
(***************************************************************************)
(* State-machine model of NotificationChannel                              *)
(* (src/src/app/Shared/Services/NotificationChannel.service.tsx).          *)
(*                                                                         *)
(* The channel combines the notifications URL, the login service's token,  *)
(* auth method and session state and a 5 s timer into one tuple stream,    *)
(* drops consecutive equal tuples, and on every remaining tuple whose      *)
(* session state is CREATING_USER_SESSION completes the WebSocket it holds *)
(* and creates a new one.  The open and close observers of every WebSocket *)
(* write the readiness subject and write the session state back to the     *)
(* login service; inbound frames are republished on one message subject.   *)
(*                                                                         *)
(* Every handler runs to completion on the single event loop, so each      *)
(* handler is one action.  Subjects emit synchronously: a setSessionState  *)
(* made inside a handler re-enters the tuple pipeline inside that action.  *)
(* The calls a handler makes are recorded, in order, in `effects`.         *)
(***************************************************************************)
EXTENDS Integers, Sequences, FiniteSets, TLC

VARIABLES
  login,      \* latest token, authMethod, sessionState emitted by LoginService
  urlSrc,     \* latest value of the notificationsUrl observable
  tick,       \* latest value of timer(0, 5000); -1 before the first tick
  pipeline,   \* "active", or "errored" once combineLatest has errored
  last,       \* the tuple distinctUntilChanged let through last
  ws,         \* this.ws: id of the WebSocketSubject held, Null for null
  sockets,    \* physical sockets whose close event has not fired yet
  ready,      \* current value of this._ready
  observers,  \* external subscribers of messages(category)
  readyObservers, \* external subscribers of isReady(), with the value seen last
  effects,    \* calls made by the handler that ran last, in order
  event       \* the event handled last

vars == <<login, urlSrc, tick, pipeline, last, ws, sockets, ready,
          observers, readyObservers, effects, event>>

---------------------------------------------------------------------------
\* Bounds of the model.

\* the timer stops after this tick
MaxTick == 2
\* sockets that may await their close event at the same time
MaxConn == 2

---------------------------------------------------------------------------
\* Values.

Null == 0
NoValue == "<no value>"
NoTick == -1
NoSessionState == -1
NoTuple == <<>>
Undefined == "<undefined>"

Tokens == {"abc", "xyz"}
Urls == {"wss://x", "wss://y"}

SessionState ==
  [NO_USER_SESSION |-> 0, CREATING_USER_SESSION |-> 1, USER_SESSION |-> 2]

SessionStates ==
  {SessionState.NO_USER_SESSION, SessionState.CREATING_USER_SESSION,
   SessionState.USER_SESSION}

AuthMethod == [BASIC |-> "Basic", BEARER |-> "Bearer", NONE |-> "None"]

AuthMethods == {AuthMethod.BASIC, AuthMethod.BEARER, AuthMethod.NONE}

CloseStatus ==
  [LOGGED_OUT |-> 1000, PROTOCOL_FAILURE |-> 1002, INTERNAL_ERROR |-> 1011,
   UNKNOWN |-> -1]

\* close codes a close event may carry: the three the switch names, and
\* 1005 (no status received) and 1006 (abnormal closure) for the default
CloseCodes ==
  {CloseStatus.LOGGED_OUT, CloseStatus.PROTOCOL_FAILURE,
   CloseStatus.INTERNAL_ERROR, 1005, 1006}

AlertVariant == [success |-> "success", info |-> "info", danger |-> "danger"]

NotificationCategory == [WsClientActivity |-> "WsClientActivity"]

\* The Category Registration Table, two of its entries.  The first carries
\* a body transform and a variant; the second has a title only.
messageKeys ==
  [WsClientActivity |->
     [title |-> "WebSocket Client Activity", body |-> TRUE,
      variant |-> AlertVariant.info, hidden |-> TRUE],
   GrafanaConfiguration |->
     [title |-> "Grafana Configuration", body |-> FALSE,
      variant |-> Undefined, hidden |-> Undefined]]

\* categories an inbound message may carry; the last is no key of the table
Categories == {"WsClientActivity", "GrafanaConfiguration", "Unlisted"}

\* the external consumers that may subscribe to messages(category)
NumObservers == 2
Observers == 1..NumObservers

\* the payloads an inbound message may carry
Payloads == {"m1", "m2"}

---------------------------------------------------------------------------
\* The program state as one record, so that handlers compose.

State ==
  [login |-> login, urlSrc |-> urlSrc, tick |-> tick, pipeline |-> pipeline,
   last |-> last, ws |-> ws, sockets |-> sockets, ready |-> ready,
   observers |-> observers, readyObservers |-> readyObservers,
   effects |-> <<>>,
   full |-> FALSE]

\* A handler's resulting state becomes the next state.  `full` is set when
\* a handler needed a socket beyond MaxConn: such steps are cut off.
Install(s) ==
  /\ ~s.full
  /\ login' = s.login
  /\ urlSrc' = s.urlSrc
  /\ tick' = s.tick
  /\ pipeline' = s.pipeline
  /\ last' = s.last
  /\ ws' = s.ws
  /\ sockets' = s.sockets
  /\ ready' = s.ready
  /\ observers' = s.observers
  /\ readyObservers' = s.readyObservers
  /\ effects' = s.effects

Log(s, e) == [s EXCEPT !.effects = Append(@, e)]

---------------------------------------------------------------------------
\* Helpers of the handlers.

\* console.error of the title and message, of the stack when the error has
\* one, and a danger notification
logError(s, title, hasStack) ==
  LET s1 == Log(s, [op |-> "console.error", text |-> title \o ":" \o "err"])
      s2 == IF hasStack
              THEN Log(s1, [op |-> "console.error", text |-> "stack"])
              ELSE s1
  IN  Log(s2, [op |-> "notifications.danger", title |-> title,
               message |-> "err"])

\* one external observer of isReady() receives a value
isReadyNext(s, o, value) ==
  IF o \in DOMAIN s.readyObservers
    THEN Log([s EXCEPT !.readyObservers[o].seen = value],
             [op |-> "isReady.next", observer |-> o, value |-> value])
    ELSE s

RECURSIVE isReadyObserversNext(_, _, _)
isReadyObserversNext(s, o, value) ==
  IF o > NumObservers
    THEN s
    ELSE isReadyObserversNext(isReadyNext(s, o, value), o + 1, value)

\* mutant of readyNext: the value is stored, the observers are not told
readyNext_Silent(s, value) ==
  Log([s EXCEPT !.ready = value], [op |-> "ready.next", value |-> value])

\* this._ready.next(value): the BehaviorSubject stores the value and hands
\* it to every observer of isReady()
readyNext(s, value) ==
  isReadyObserversNext(
    Log([s EXCEPT !.ready = value], [op |-> "ready.next", value |-> value]),
    1, value)

\* String(n) of a session state, as parseInt applies it to its argument
numberToString(n) ==
  CASE n = 0 -> "0"
    [] n = 1 -> "1"
    [] n = 2 -> "2"
    [] OTHER -> "NaN"

\* parseInt of the value in parts[3]: the decimal string is read back
parseInt(v) ==
  LET str == numberToString(v)
  IN  CASE str = "0" -> 0
        [] str = "1" -> 1
        [] str = "2" -> 2
        [] OTHER -> -1

\* mutant of isEqual: comparison by reference, which no two tuples pass
isEqual_ByReference(a, b) == FALSE

\* _.isEqual on two tuples of primitive values
isEqual(a, b) == a = b

\* ws.complete(): a socket that is connecting or open starts closing, and
\* the frames still queued for it are dropped; its close event follows
wsComplete(s) ==
  LET id == s.ws
      s1 == IF id \in DOMAIN s.sockets
               /\ s.sockets[id].state \in {"CONNECTING", "OPEN"}
              THEN [s EXCEPT !.sockets[id].state = "CLOSING",
                             !.sockets[id].queue = <<>>]
              ELSE s
  IN  Log(s1, [op |-> "ws.complete", sock |-> id])

FreeIds(s) == (1..MaxConn) \ DOMAIN s.sockets

\* webSocket({url, protocol, openObserver, closeObserver}): a new subject
webSocket(s, url, protocol) ==
  IF FreeIds(s) = {}
    THEN [s EXCEPT !.full = TRUE]
    ELSE LET id == CHOOSE i \in FreeIds(s) : \A j \in FreeIds(s) : i <= j
         IN  Log([s EXCEPT !.ws = id,
                           !.sockets = (id :> [state |-> "NEW",
                                               queue |-> <<>>]) @@ @],
                 [op |-> "webSocket", sock |-> id, url |-> url,
                  protocol |-> protocol])

\* this.ws.subscribe({next, error}): the subject connects its socket
wsSubscribe(s) ==
  IF s.full THEN s
  ELSE Log([s EXCEPT !.sockets[s.ws].state = "CONNECTING"],
           [op |-> "ws.subscribe", sock |-> s.ws])

\* mutant of wsNext: the frame is queued twice
wsNext_Twice(s, frame) ==
  IF s.full THEN s
  ELSE Log([s EXCEPT !.sockets[s.ws].queue = Append(Append(@, frame), frame)],
           [op |-> "ws.next", sock |-> s.ws, frame |-> frame])

\* this.ws.next(frame): queued until the socket opens
wsNext(s, frame) ==
  IF s.full THEN s
  ELSE Log([s EXCEPT !.sockets[s.ws].queue = Append(@, frame)],
           [op |-> "ws.next", sock |-> s.ws, frame |-> frame])

\* mutant of Subprotocol: the basic branch builds the bearer string
Subprotocol_BasicAsBearer(authMethod, token) ==
  IF authMethod = AuthMethod.BEARER \/ authMethod = AuthMethod.BASIC
    THEN "base64url.bearer.authorization.cryostat." \o token
    ELSE Undefined

\* the subprotocol derived from authMethod and token
Subprotocol(authMethod, token) ==
  IF authMethod = AuthMethod.BEARER
    THEN "base64url.bearer.authorization.cryostat." \o token
    ELSE IF authMethod = AuthMethod.BASIC
      THEN "basic.authorization.cryostat." \o token
      ELSE Undefined

\* mutant of Proceeds: only NO_USER_SESSION returns early
Proceeds_UnlessNoSession(sessionState) ==
  sessionState # SessionState.NO_USER_SESSION

\* the guard of the tuple subscriber: only CREATING_USER_SESSION goes on
Proceeds(sessionState) == sessionState = SessionState.CREATING_USER_SESSION

\* mutant of Reconcile: the WebSocket held is not completed
Reconcile_NoComplete(s, parts) ==
  IF ~Proceeds(parseInt(parts[4]))
    THEN s
    ELSE wsNext(wsSubscribe(webSocket(s, parts[1],
                                      Subprotocol(parts[3], parts[2]))),
                [message |-> "connect"])

\* the next callback of the tuple subscription
Reconcile(s, parts) ==
  LET url == parts[1]
      token == parts[2]
      authMethod == parts[3]
      sessionState == parseInt(parts[4])
      subprotocol == Subprotocol(authMethod, token)
  IN  IF ~Proceeds(sessionState)
        THEN s
        ELSE LET s1 == IF s.ws # Null THEN wsComplete(s) ELSE s
                 s2 == webSocket(s1, url, subprotocol)
                 s3 == wsSubscribe(s2)
             IN  wsNext(s3, [message |-> "connect"])

\* mutant of Gate: the timer's count is left out of the comparison
Gate_IgnoreTick(s, parts) ==
  IF s.last # NoTuple /\ isEqual(SubSeq(s.last, 1, 4), SubSeq(parts, 1, 4))
    THEN s
    ELSE Reconcile(Log([s EXCEPT !.last = parts],
                       [op |-> "next", parts |-> parts]), parts)

\* distinctUntilChanged(_.isEqual): a tuple equal to the one let through
\* last is dropped
Gate(s, parts) ==
  IF s.last # NoTuple /\ isEqual(s.last, parts)
    THEN s
    ELSE Reconcile(Log([s EXCEPT !.last = parts],
                       [op |-> "next", parts |-> parts]), parts)

\* combineLatest: once every source has emitted, each emission of a source
\* yields the tuple of the latest values
combineLatest(s) ==
  IF /\ s.pipeline = "active"
     /\ s.urlSrc # NoValue
     /\ s.login.token # NoValue
     /\ s.login.authMethod # NoValue
     /\ s.login.sessionState # NoSessionState
     /\ s.tick # NoTick
    THEN LET parts == <<s.urlSrc, s.login.token, s.login.authMethod,
                        s.login.sessionState, s.tick>>
         IN  Gate(Log(s, [op |-> "tuple", parts |-> parts]), parts)
    ELSE s

\* login.setSessionState(v): the session-state stream emits v
setSessionState(s, v) ==
  combineLatest(Log([s EXCEPT !.login.sessionState = v],
                    [op |-> "setSessionState", value |-> v]))

---------------------------------------------------------------------------
\* The observers of a WebSocket.

\* mutant of openObserver: the session state is written back first
openObserver_SessionFirst(s) ==
  readyNext(setSessionState(s, SessionState.USER_SESSION), [ready |-> TRUE])

\* openObserver.next
openObserver(s) ==
  setSessionState(readyNext(s, [ready |-> TRUE]), SessionState.USER_SESSION)

\* mutant of Classify: the INTERNAL_ERROR case is missing
Classify_NoInternalCase(evtCode) ==
  CASE evtCode = CloseStatus.LOGGED_OUT ->
         [code |-> CloseStatus.LOGGED_OUT, msg |-> "Logout success",
          fn |-> "info", sessionState |-> SessionState.NO_USER_SESSION]
    [] evtCode = CloseStatus.PROTOCOL_FAILURE ->
         [code |-> CloseStatus.PROTOCOL_FAILURE,
          msg |-> "Authentication failed",
          fn |-> "danger", sessionState |-> SessionState.NO_USER_SESSION]
    [] OTHER ->
         [code |-> CloseStatus.UNKNOWN, msg |-> Undefined,
          fn |-> "info",
          sessionState |-> SessionState.CREATING_USER_SESSION]

\* the switch of closeObserver.next on evt.code
Classify(evtCode) ==
  CASE evtCode = CloseStatus.LOGGED_OUT ->
         [code |-> CloseStatus.LOGGED_OUT, msg |-> "Logout success",
          fn |-> "info", sessionState |-> SessionState.NO_USER_SESSION]
    [] evtCode = CloseStatus.PROTOCOL_FAILURE ->
         [code |-> CloseStatus.PROTOCOL_FAILURE,
          msg |-> "Authentication failed",
          fn |-> "danger", sessionState |-> SessionState.NO_USER_SESSION]
    [] evtCode = CloseStatus.INTERNAL_ERROR ->
         [code |-> CloseStatus.INTERNAL_ERROR,
          msg |-> "Internal server error",
          fn |-> "danger",
          sessionState |-> SessionState.CREATING_USER_SESSION]
    [] OTHER ->
         [code |-> CloseStatus.UNKNOWN, msg |-> Undefined,
          fn |-> "info",
          sessionState |-> SessionState.CREATING_USER_SESSION]

\* mutant of closeObserver: the notification is raised before the writes
closeObserver_NotifyFirst(s, evtCode) ==
  LET c == Classify(evtCode)
      s1 == Log(s, [op |-> "notifications." \o c.fn,
                    title |-> "WebSocket connection lost",
                    message |-> c.msg,
                    category |-> NotificationCategory.WsClientActivity,
                    hidden |-> (c.fn = "info")])
      s2 == readyNext(s1, [ready |-> FALSE, code |-> c.code])
  IN  setSessionState(s2, c.sessionState)

\* closeObserver.next
closeObserver(s, evtCode) ==
  LET c == Classify(evtCode)
      s1 == readyNext(s, [ready |-> FALSE, code |-> c.code])
      s2 == setSessionState(s1, c.sessionState)
  IN  Log(s2, [op |-> "notifications." \o c.fn,
               title |-> "WebSocket connection lost",
               message |-> c.msg,
               category |-> NotificationCategory.WsClientActivity,
               hidden |-> (c.fn = "info")])

---------------------------------------------------------------------------
\* The message subject and its subscribers.

\* mutant of messages: the filter lets every message through
messages_Unfiltered(category, msg) == TRUE

\* the filter of messages(category)
messages(category, msg) == msg.meta.category = category

\* the keys of messageKeys, in the order forEach visits them
messageKeysOrder == <<"WsClientActivity", "GrafanaConfiguration">>

\* mutant of Registered: every key of the table gets a notifying handler
Registered_EveryKey(key) == key \in DOMAIN messageKeys

\* whether the constructor subscribes a notifying handler for the key
Registered(key) ==
  /\ key \in DOMAIN messageKeys
  /\ messageKeys[key].body
  /\ messageKeys[key].variant # Undefined

\* the handler subscribed for one key of messageKeys
categoryHandler(s, key, msg) ==
  IF Registered(key) /\ messages(key, msg)
    THEN Log(s, [op |-> "notifications.notify",
                 title |-> messageKeys[key].title,
                 message |-> <<"body", key, msg.message>>,
                 category |-> key,
                 variant |-> messageKeys[key].variant,
                 hidden |-> messageKeys[key].hidden])
    ELSE s

RECURSIVE categoryHandlers(_, _, _)
categoryHandlers(s, i, msg) ==
  IF i > Len(messageKeysOrder)
    THEN s
    ELSE categoryHandlers(categoryHandler(s, messageKeysOrder[i], msg),
                          i + 1, msg)

\* mutant of Unknown: the filter lets every message through
Unknown_Always(msg) == TRUE

\* the filter of the fallback handler
Unknown(msg) == ~(msg.meta.category \in DOMAIN messageKeys)

\* mutant of fallbackHandler: the notification is of info severity
fallbackHandler_Info(s, msg) ==
  IF Unknown(msg)
    THEN Log(s, [op |-> "notifications.notify",
                 title |-> msg.meta.category,
                 message |-> msg.message,
                 category |-> Undefined,
                 variant |-> AlertVariant.info,
                 hidden |-> Undefined])
    ELSE s

\* the fallback handler for unknown categories of message
fallbackHandler(s, msg) ==
  IF Unknown(msg)
    THEN Log(s, [op |-> "notifications.notify",
                 title |-> msg.meta.category,
                 message |-> msg.message,
                 category |->
                   IF msg.meta.category \in DOMAIN NotificationCategory
                     THEN NotificationCategory[msg.meta.category]
                     ELSE Undefined,
                 variant |-> AlertVariant.success,
                 hidden |-> Undefined])
    ELSE s

\* one external observer of messages(category)
observerNext(s, o, msg) ==
  IF o \in DOMAIN s.observers /\ messages(s.observers[o].category, msg)
    THEN Log(s, [op |-> "observer.next", observer |-> o, msg |-> msg])
    ELSE s

RECURSIVE observersNext(_, _, _)
observersNext(s, o, msg) ==
  IF o > NumObservers
    THEN s
    ELSE observersNext(observerNext(s, o, msg), o + 1, msg)

\* this._messages.next(msg): every subscriber, in subscription order
messagesNext(s, msg) ==
  LET s1 == categoryHandlers(s, 1, msg)
      s2 == fallbackHandler(s1, msg)
  IN  observersNext(s2, 1, msg)

---------------------------------------------------------------------------
\* Initial state: nothing has emitted yet.

Init ==
  /\ login = [token |-> NoValue, authMethod |-> NoValue,
              sessionState |-> NoSessionState]
  /\ urlSrc = NoValue
  /\ tick = NoTick
  /\ pipeline = "active"
  /\ last = NoTuple
  /\ ws = Null
  /\ sockets = [i \in {} |-> Null]
  /\ ready = [ready |-> FALSE]
  /\ observers = [i \in {} |-> Null]
  /\ readyObservers = [i \in {} |-> Null]
  /\ effects = <<>>
  /\ event = [type |-> "init"]

---------------------------------------------------------------------------
\* Actions: one per event the event loop hands to the channel.

\* the fetch of /api/v1/notifications_url answers with the URL
FetchOk(u) ==
  /\ pipeline = "active"
  /\ urlSrc = NoValue
  /\ Install(combineLatest([State EXCEPT !.urlSrc = u]))
  /\ event' = [type |-> "fetchOk", url |-> u]

\* mutant of FetchFail: the error callback also writes the readiness state
FetchFail_WritesReady(hasStack) ==
  /\ pipeline = "active"
  /\ urlSrc = NoValue
  /\ Install(logError(readyNext([State EXCEPT !.pipeline = "errored"],
                                [ready |-> FALSE]),
                      "Notifications URL configuration", hasStack))
  /\ event' = [type |-> "fetchFail"]

\* the fetch fails, or answers with a non-ok status: the pipeline errors
FetchFail(hasStack) ==
  /\ pipeline = "active"
  /\ urlSrc = NoValue
  /\ Install(logError([State EXCEPT !.pipeline = "errored"],
                      "Notifications URL configuration", hasStack))
  /\ event' = [type |-> "fetchFail"]

\* login.getToken() emits
LoginToken(t) ==
  /\ Install(combineLatest([State EXCEPT !.login.token = t]))
  /\ event' = [type |-> "token", token |-> t]

\* login.getAuthMethod() emits
LoginAuthMethod(m) ==
  /\ Install(combineLatest([State EXCEPT !.login.authMethod = m]))
  /\ event' = [type |-> "authMethod", authMethod |-> m]

\* another party of the application calls login.setSessionState
LoginSessionState(v) ==
  /\ Install(setSessionState(State, v))
  /\ event' = [type |-> "sessionState", sessionState |-> v]

\* timer(0, 5000) emits its next count
Tick ==
  /\ pipeline = "active"
  /\ tick < MaxTick
  /\ Install(combineLatest([State EXCEPT !.tick = tick + 1]))
  /\ event' = [type |-> "tick"]

\* the frames queued on the subject are sent once its socket is open
flush(s, id) ==
  IF id \in DOMAIN s.sockets /\ s.sockets[id].state = "OPEN"
       /\ s.sockets[id].queue # <<>>
    THEN Log([s EXCEPT !.sockets[id].queue = <<>>],
             [op |-> "socket.send", sock |-> id,
              frames |-> s.sockets[id].queue])
    ELSE s

\* a connecting socket opens
SocketOpen(id) ==
  /\ id \in DOMAIN sockets
  /\ sockets[id].state = "CONNECTING"
  /\ Install(flush(openObserver([State EXCEPT !.sockets[id].state = "OPEN"]),
                   id))
  /\ event' = [type |-> "open", sock |-> id]

\* a socket closes, with the close code the event carries
SocketClose(id, evtCode) ==
  /\ id \in DOMAIN sockets
  /\ Install(closeObserver(
       [State EXCEPT !.sockets = [i \in DOMAIN sockets \ {id} |-> sockets[i]]],
       evtCode))
  /\ event' = [type |-> "close", sock |-> id, code |-> evtCode]

\* mutant of SocketError: the error callback reconnects by itself
SocketError_Reconnects(id, hasStack) ==
  /\ id \in DOMAIN sockets
  /\ sockets[id].state \in {"CONNECTING", "OPEN"}
  /\ Install(setSessionState(
       logError([State EXCEPT !.sockets[id].state = "CLOSING",
                              !.sockets[id].queue = <<>>],
                "WebSocket error", hasStack),
       SessionState.CREATING_USER_SESSION))
  /\ event' = [type |-> "error", sock |-> id]

\* a transport error on a socket: it has failed and its close event follows
SocketError(id, hasStack) ==
  /\ id \in DOMAIN sockets
  /\ sockets[id].state \in {"CONNECTING", "OPEN"}
  /\ Install(logError([State EXCEPT !.sockets[id].state = "CLOSING",
                                    !.sockets[id].queue = <<>>],
                      "WebSocket error", hasStack))
  /\ event' = [type |-> "error", sock |-> id]

\* a frame arrives on an open socket
SocketMessage(id, category, payload) ==
  /\ id \in DOMAIN sockets
  /\ sockets[id].state = "OPEN"
  /\ LET msg == [meta |-> [category |-> category], message |-> payload]
     IN  /\ Install(messagesNext(State, msg))
         /\ event' = [type |-> "message", sock |-> id, msg |-> msg]

\* mutant of LoggedOut: the handler also demotes the session itself
LoggedOut_WritesSession ==
  /\ Install(setSessionState(IF ws # Null THEN wsComplete(State) ELSE State,
                             SessionState.NO_USER_SESSION))
  /\ event' = [type |-> "loggedOut"]

\* login.loggedOut() emits
LoggedOut ==
  /\ Install(IF ws # Null THEN wsComplete(State) ELSE State)
  /\ event' = [type |-> "loggedOut"]

\* a consumer subscribes to messages(category)
Subscribe(o, category) ==
  /\ o \notin DOMAIN observers
  /\ Install([State EXCEPT !.observers =
                (o :> [category |-> category, early |-> (ws = Null)]) @@ @])
  /\ event' = [type |-> "subscribe", observer |-> o]

\* a consumer unsubscribes
Unsubscribe(o) ==
  /\ o \in DOMAIN observers
  /\ Install([State EXCEPT !.observers =
                [i \in DOMAIN observers \ {o} |-> observers[i]]])
  /\ event' = [type |-> "unsubscribe", observer |-> o]

\* isReady().subscribe: the BehaviorSubject replays its current value
isReady(s, o) ==
  isReadyNext([s EXCEPT !.readyObservers = (o :> [seen |-> NoValue]) @@ @],
              o, s.ready)

\* a consumer subscribes to isReady()
ReadySubscribe(o) ==
  /\ o \notin DOMAIN readyObservers
  /\ Install(isReady(State, o))
  /\ event' = [type |-> "readySubscribe", observer |-> o]

\* a consumer of isReady() unsubscribes
ReadyUnsubscribe(o) ==
  /\ o \in DOMAIN readyObservers
  /\ Install([State EXCEPT !.readyObservers =
                [i \in DOMAIN readyObservers \ {o} |-> readyObservers[i]]])
  /\ event' = [type |-> "readyUnsubscribe", observer |-> o]

\* the events of the connection supervisor
NextConn ==
  \/ \E u \in Urls : FetchOk(u)
  \/ \E hasStack \in BOOLEAN : FetchFail(hasStack)
  \/ \E t \in Tokens : LoginToken(t)
  \/ \E m \in AuthMethods : LoginAuthMethod(m)
  \/ \E v \in SessionStates : LoginSessionState(v)
  \/ Tick
  \/ \E id \in 1..MaxConn : SocketOpen(id)
  \/ \E id \in 1..MaxConn, evtCode \in CloseCodes : SocketClose(id, evtCode)
  \/ \E id \in 1..MaxConn, hasStack \in BOOLEAN : SocketError(id, hasStack)
  \/ LoggedOut

\* the events of the message distributor
NextMsg ==
  \/ \E id \in 1..MaxConn, category \in Categories, payload \in Payloads :
       SocketMessage(id, category, payload)
  \/ \E o \in Observers, category \in Categories : Subscribe(o, category)
  \/ \E o \in Observers : Unsubscribe(o)

\* the events of the readiness signal's consumers
NextReady ==
  \/ \E o \in Observers : ReadySubscribe(o)
  \/ \E o \in Observers : ReadyUnsubscribe(o)

Next == NextConn \/ NextMsg \/ NextReady

Spec == Init /\ [][Next]_vars

\* the connection supervisor alone: no consumer subscribes, no frame arrives
SpecConn == Init /\ [][NextConn]_vars

\* The message distributor, with the login service settled on a bearer
\* token: the URL is resolved, token and auth method have been emitted and
\* the timer has ticked once; the session state is still to come.
InitDist ==
  /\ login = [token |-> "abc", authMethod |-> AuthMethod.BEARER,
              sessionState |-> NoSessionState]
  /\ urlSrc = "wss://x"
  /\ tick = 0
  /\ pipeline = "active"
  /\ last = NoTuple
  /\ ws = Null
  /\ sockets = [i \in {} |-> Null]
  /\ ready = [ready |-> FALSE]
  /\ observers = [i \in {} |-> Null]
  /\ readyObservers = [i \in {} |-> Null]
  /\ effects = <<>>
  /\ event = [type |-> "tick"]

NextDist ==
  \/ \E v \in SessionStates : LoginSessionState(v)
  \/ \E id \in 1..MaxConn : SocketOpen(id)
  \/ \E id \in 1..MaxConn, evtCode \in CloseCodes : SocketClose(id, evtCode)
  \/ NextMsg

SpecDist == InitDist /\ [][NextDist]_vars

\* The readiness signal: consumers of isReady() come and go while
\* WebSockets are created, open and close.
NextReadiness ==
  \/ \E v \in SessionStates : LoginSessionState(v)
  \/ \E id \in 1..MaxConn : SocketOpen(id)
  \/ \E id \in 1..MaxConn, evtCode \in CloseCodes : SocketClose(id, evtCode)
  \/ NextReady

SpecReadiness == InitDist /\ [][NextReadiness]_vars

\* The retry after a lost connection: the timer keeps emitting (timer(0,
\* 5000) never completes), so a tick that can happen does happen.
NextRetry ==
  \/ \E t \in Tokens : LoginToken(t)
  \/ \E v \in SessionStates : LoginSessionState(v)
  \/ Tick
  \/ \E id \in 1..MaxConn : SocketOpen(id)
  \/ \E id \in 1..MaxConn, evtCode \in CloseCodes : SocketClose(id, evtCode)

\* the timer emits its next count, whatever the subscriber then does
TimerEmits == pipeline = "active" /\ tick < MaxTick /\ tick' = tick + 1

SpecRetry == InitDist /\ [][NextRetry]_vars /\ WF_tick(TimerEmits)

---------------------------------------------------------------------------
\* Properties.

\* the positions of the handler's calls of one kind
Calls(op) == {i \in 1..Len(effects) : effects[i].op = op}

\* the sockets that are connecting or open
Live == {id \in DOMAIN sockets : sockets[id].state \in {"CONNECTING", "OPEN"}}

ConnectionCalls == {"ws.complete", "webSocket", "ws.subscribe", "ws.next"}

\* C1: at most one socket is open (or connecting) at any instant, it is the
\* one this.ws holds, and a handler that creates a WebSocket while it held
\* one has completed the old one first: every other socket is closing.
C1_SingleConnection ==
  /\ Cardinality(Live) <= 1
  /\ \A id \in Live : id = ws
  /\ \A j \in Calls("webSocket") :
       /\ \A i \in Calls("ws.complete") : i < j
       /\ \A id \in DOMAIN sockets \ {effects[j].sock} :
            sockets[id].state = "CLOSING"

\* a connection was replaced: the old socket is closing, the new connecting
C1_Witness ==
  /\ Calls("ws.complete") # {}
  /\ Calls("webSocket") # {}
  /\ \E id \in DOMAIN sockets : sockets[id].state = "CLOSING"
  /\ \E id \in DOMAIN sockets : sockets[id].state = "CONNECTING"

\* C2: a WebSocket is created only by a tuple that passed the gate with
\* sessionState CREATING_USER_SESSION, which is then the latest one; a
\* handler whose tuple passed the gate with another session state makes no
\* call on the connection: none is completed, created or replaced.
C2_OnlyWhenCreating ==
  /\ \A j \in Calls("webSocket") :
       \E i \in Calls("next") :
         /\ i < j
         /\ effects[i].parts = last
         /\ last[4] = SessionState.CREATING_USER_SESSION
  /\ \A i \in Calls("next") :
       effects[i].parts[4] # SessionState.CREATING_USER_SESSION
         => \A k \in 1..Len(effects) : effects[k].op \notin ConnectionCalls

\* a tuple with USER_SESSION passed the gate while a socket is open
C2_Witness ==
  /\ \E i \in Calls("next") :
       effects[i].parts[4] = SessionState.USER_SESSION
  /\ ws \in DOMAIN sockets
  /\ sockets[ws].state = "OPEN"

\* C3: after a close event the readiness state and the session state are
\* those of the table row of the close code's class.
C3_CloseTable ==
  event.type = "close" =>
    /\ event.code = CloseStatus.LOGGED_OUT =>
         /\ ready = [ready |-> FALSE, code |-> CloseStatus.LOGGED_OUT]
         /\ login.sessionState = SessionState.NO_USER_SESSION
    /\ event.code = CloseStatus.PROTOCOL_FAILURE =>
         /\ ready = [ready |-> FALSE, code |-> CloseStatus.PROTOCOL_FAILURE]
         /\ login.sessionState = SessionState.NO_USER_SESSION
    /\ event.code = CloseStatus.INTERNAL_ERROR =>
         /\ ready = [ready |-> FALSE, code |-> CloseStatus.INTERNAL_ERROR]
         /\ login.sessionState = SessionState.CREATING_USER_SESSION
    /\ event.code \notin {CloseStatus.LOGGED_OUT, CloseStatus.PROTOCOL_FAILURE,
                          CloseStatus.INTERNAL_ERROR} =>
         /\ ready = [ready |-> FALSE, code |-> CloseStatus.UNKNOWN]
         /\ login.sessionState = SessionState.CREATING_USER_SESSION
    /\ Cardinality(Calls("ready.next")) = 1
    /\ Cardinality(Calls("setSessionState")) = 1
    /\ \A i \in Calls("ready.next") : effects[i].value = ready
    /\ \A i \in Calls("setSessionState") :
         effects[i].value = login.sessionState

\* a socket closed with the internal-error code
C3_Witness ==
  /\ event.type = "close"
  /\ event.code = CloseStatus.INTERNAL_ERROR
  /\ ready = [ready |-> FALSE, code |-> CloseStatus.INTERNAL_ERROR]

\* the 'WebSocket connection lost' notifications of the handler
LostCalls ==
  {i \in Calls("notifications.info") \cup Calls("notifications.danger") :
     effects[i].title = "WebSocket connection lost"}

\* C4: readiness is written {ready: true} by open events only and
\* {ready: false, code} by close events only; every close event writes it,
\* before its one 'WebSocket connection lost' notification; the readiness
\* state changes in no step of another event.
C4_ReadinessWrites ==
  /\ [](\A i \in Calls("ready.next") :
          /\ effects[i].value.ready => event.type = "open"
          /\ ~effects[i].value.ready =>
               /\ event.type = "close"
               /\ "code" \in DOMAIN effects[i].value)
  /\ [](event.type = "close" =>
          /\ Cardinality(LostCalls) = 1
          /\ \A j \in LostCalls :
               \E i \in Calls("ready.next") :
                 /\ i < j
                 /\ ~effects[i].value.ready
                 /\ effects[i].value = ready)
  /\ [](event.type = "open" => ready = [ready |-> TRUE])
  /\ [][ready' # ready => event'.type \in {"open", "close"}]_vars

\* a close event has written readiness and raised its notification
C4_Witness ==
  /\ event.type = "close"
  /\ LostCalls # {}
  /\ ~ready.ready

\* C5: the open event's handler first writes {ready: true}, then writes the
\* session state USER_SESSION back, and both hold when the step ends.
C5_OpenEffects ==
  event.type = "open" =>
    /\ Len(effects) >= 2
    /\ effects[1] = [op |-> "ready.next", value |-> [ready |-> TRUE]]
    /\ effects[2] = [op |-> "setSessionState",
                     value |-> SessionState.USER_SESSION]
    /\ ready = [ready |-> TRUE]
    /\ login.sessionState = SessionState.USER_SESSION

\* a socket has just opened
C5_Witness ==
  /\ event.type = "open"
  /\ ws \in DOMAIN sockets
  /\ sockets[ws].state = "OPEN"

\* C6: every WebSocket is created with the URL of the tuple that passed the
\* gate and with the subprotocol its auth method and token give.
C6_Subprotocol ==
  \A j \in Calls("webSocket") :
    /\ effects[j].url = last[1]
    /\ last[3] = AuthMethod.BEARER =>
         effects[j].protocol =
           "base64url.bearer.authorization.cryostat." \o last[2]
    /\ last[3] = AuthMethod.BASIC =>
         effects[j].protocol = "basic.authorization.cryostat." \o last[2]
    /\ last[3] \notin {AuthMethod.BEARER, AuthMethod.BASIC} =>
         effects[j].protocol = Undefined

\* a WebSocket was created with basic credentials for the token "xyz"
C6_Witness ==
  \E j \in Calls("webSocket") :
    /\ effects[j].protocol = "basic.authorization.cryostat.xyz"
    /\ effects[j].url = "wss://y"

\* C7: a tuple equal to the previous one is suppressed by the gate: in the
\* step that emits it no tuple reaches the subscriber and no call is made
\* on the connection: this.ws stays, no socket is created and none starts
\* closing.
C7_Dedup ==
  [][(\E i \in 1..Len(effects') :
        /\ effects'[i].op = "tuple"
        /\ effects'[i].parts = last)
     => /\ \A k \in 1..Len(effects') :
             effects'[k].op \notin ConnectionCalls \cup {"next"}
        /\ ws' = ws
        /\ \A id \in DOMAIN sockets' :
             /\ id \in DOMAIN sockets
             /\ sockets'[id].state = "CLOSING"
                  => sockets[id].state = "CLOSING"]_vars

\* a CREATING_USER_SESSION tuple was emitted again while a socket is
\* connecting, and did not reach the subscriber
C7_Witness ==
  /\ \E i \in Calls("tuple") :
       /\ effects[i].parts[4] = SessionState.CREATING_USER_SESSION
       /\ effects[i].parts = last
  /\ Calls("next") = {}
  /\ ws \in DOMAIN sockets
  /\ sockets[ws].state = "CONNECTING"

---------------------------------------------------------------------------
\* Properties of the message distributor.

\* the handler's deliveries to one external observer
Deliveries(o) == {i \in Calls("observer.next") : effects[i].observer = o}

\* the external observers subscribed to a category
Subscribed(category) ==
  {o \in DOMAIN observers : observers[o].category = category}

\* C8: the step in which a message arrives delivers it once to every
\* observer subscribed to its category and to no other observer, so each
\* observer sees the messages of its category in arrival order; nothing is
\* delivered in a step of another event.
C8_ExactlyOnce ==
  /\ event.type = "message" =>
       /\ \A i \in Calls("observer.next") : effects[i].msg = event.msg
       /\ \A o \in Observers :
            Cardinality(Deliveries(o)) =
              IF o \in Subscribed(event.msg.meta.category) THEN 1 ELSE 0
  /\ event.type # "message" => Calls("observer.next") = {}

\* a message arrives on the second socket, which was created while the
\* first had not closed yet, and is delivered to an observer of its
\* category that subscribed before any WebSocket was created, and not to
\* an observer of another category
C8_Witness ==
  /\ event.type = "message"
  /\ event.sock = 2
  /\ \E o \in Subscribed(event.msg.meta.category) :
       /\ observers[o].early
       /\ Deliveries(o) # {}
  /\ \E o \in DOMAIN observers :
       /\ observers[o].category # event.msg.meta.category
       /\ Deliveries(o) = {}

\* the notification the handler of a key raises for a message
KeyNotification(key, msg) ==
  [op |-> "notifications.notify", title |-> messageKeys[key].title,
   message |-> <<"body", key, msg.message>>, category |-> key,
   variant |-> messageKeys[key].variant, hidden |-> messageKeys[key].hidden]

\* the notifications raised with the raw category as title
FallbackCalls ==
  {i \in Calls("notifications.notify") :
     effects[i].title = event.msg.meta.category}

\* C9 as claimed: a message whose category is a key of messageKeys raises
\* exactly one notification of that category, no fallback notification,
\* and is delivered to every observer of the category.
C9_AsClaimed ==
  (event.type = "message" /\ event.msg.meta.category \in DOMAIN messageKeys)
    => /\ Cardinality({i \in Calls("notifications.notify") :
                         effects[i].category = event.msg.meta.category}) = 1
       /\ FallbackCalls = {}
       /\ \A o \in Subscribed(event.msg.meta.category) : Deliveries(o) # {}

\* C9 as amended: a message whose category is a key of messageKeys whose
\* entry has a body transform and a variant raises exactly one
\* notification, the one of its entry, no fallback notification, and is
\* delivered to every observer of the category.
C9_RegisteredFanOut ==
  (/\ event.type = "message"
   /\ event.msg.meta.category \in DOMAIN messageKeys
   /\ messageKeys[event.msg.meta.category].body
   /\ messageKeys[event.msg.meta.category].variant # Undefined)
    => /\ Cardinality(Calls("notifications.notify")) = 1
       /\ \A i \in Calls("notifications.notify") :
            effects[i] = KeyNotification(event.msg.meta.category, event.msg)
       /\ FallbackCalls = {}
       /\ \A o \in Subscribed(event.msg.meta.category) :
            Cardinality(Deliveries(o)) = 1

\* a WsClientActivity message arrives while two observers are subscribed
\* to that category
C9_Witness ==
  /\ event.type = "message"
  /\ event.msg.meta.category = "WsClientActivity"
  /\ Cardinality(Subscribed("WsClientActivity")) = 2
  /\ Cardinality(Calls("observer.next")) = 2
  /\ Calls("notifications.notify") # {}

\* C10: a message whose category is no key of messageKeys raises exactly
\* one notification, titled with the raw category and of success severity,
\* and is delivered to every observer of the category.
C10_Fallback ==
  (event.type = "message" /\ event.msg.meta.category \notin DOMAIN messageKeys)
    => /\ Cardinality(Calls("notifications.notify")) = 1
       /\ \A i \in Calls("notifications.notify") :
            /\ effects[i].title = event.msg.meta.category
            /\ effects[i].message = event.msg.message
            /\ effects[i].variant = AlertVariant.success
       /\ \A o \in Subscribed(event.msg.meta.category) :
            Cardinality(Deliveries(o)) = 1

\* a message of an unlisted category arrives while an observer is
\* subscribed to it
C10_Witness ==
  /\ event.type = "message"
  /\ event.msg.meta.category = "Unlisted"
  /\ Subscribed("Unlisted") # {}
  /\ Calls("observer.next") # {}
  /\ FallbackCalls # {}

---------------------------------------------------------------------------
\* Properties of the readiness signal.

\* the handler's deliveries to one observer of isReady()
ReadyDeliveries(o) == {i \in Calls("isReady.next") : effects[i].observer = o}

\* C11: a consumer that subscribes to isReady() is handed the current
\* readiness value at once ({ready: false} before any write); every write
\* is handed once, after it is made, to every observer subscribed at the
\* time; so each observer has always seen the current value last.
C11_Replay ==
  /\ \A o \in DOMAIN readyObservers : readyObservers[o].seen = ready
  /\ event.type = "readySubscribe" =>
       effects = <<[op |-> "isReady.next", observer |-> event.observer,
                    value |-> ready]>>
  /\ event.type # "readySubscribe" =>
       /\ Cardinality(Calls("ready.next")) <= 1
       /\ Calls("ready.next") = {} => Calls("isReady.next") = {}
       /\ \A i \in Calls("ready.next") :
            /\ \A o \in DOMAIN readyObservers :
                 Cardinality(ReadyDeliveries(o)) = 1
            /\ \A j \in Calls("isReady.next") :
                 /\ i < j
                 /\ effects[j].observer \in DOMAIN readyObservers
                 /\ effects[j].value = effects[i].value

\* an observer subscribes after a close has written a reason code and is
\* handed that value, which an observer subscribed earlier has seen too
C11_Witness ==
  /\ event.type = "readySubscribe"
  /\ "code" \in DOMAIN ready
  /\ Cardinality(DOMAIN readyObservers) = 2
  /\ \A o \in DOMAIN readyObservers : readyObservers[o].seen = ready
  /\ ReadyDeliveries(event.observer) # {}

---------------------------------------------------------------------------
\* The timer and the connection held.

\* the four parts of a tuple beside the timer's count
Material(parts) == SubSeq(parts, 1, 4)

\* C12: a timer tick that finds address, token, authMethod and sessionState
\* as the tuple let through last had them, while the connection held is
\* connecting or open, makes no call on the connection: this.ws and the
\* sockets stay as they are.
C12_TickAlone ==
  [][(/\ event'.type = "tick"
      /\ last # NoTuple
      /\ Material(last) = <<urlSrc, login.token, login.authMethod,
                            login.sessionState>>
      /\ ws \in Live)
     => /\ \A k \in 1..Len(effects') : effects'[k].op \notin ConnectionCalls
        /\ ws' = ws
        /\ sockets' = sockets]_vars

\* the connection this.ws holds is open
HeldOpen == ws \in DOMAIN sockets /\ sockets[ws].state = "OPEN"

\* C13: whenever the connection held is open the readiness state is
\* {ready: true}; and the close event of a superseded socket, arriving
\* while this.ws holds its replacement, neither writes the readiness state
\* nor writes a session state back.
C13_HeldConnection ==
  /\ [](HeldOpen => ready.ready)
  /\ [][(/\ event'.type = "close"
         /\ ws \in DOMAIN sockets
         /\ event'.sock # ws)
        => /\ ready' = ready
           /\ \A k \in 1..Len(effects') :
                effects'[k].op # "setSessionState"]_vars

\* the event handled last is a close classified internal error or unknown
RetryableClose ==
  /\ event.type = "close"
  /\ event.code \notin {CloseStatus.LOGGED_OUT, CloseStatus.PROTOCOL_FAILURE}

---------------------------------------------------------------------------
\* The failure of the address resolution.

\* C15: a failed resolution abandons only the attempt of its cycle: the
\* tuple pipeline stays subscribed, so that a later tick recomputes the
\* tuple, retries the resolution and can still create a WebSocket.
C15_RetryLater ==
  event.type = "fetchFail" => pipeline = "active"

\* C16: the step of a failed resolution only logs: it makes no call on a
\* connection and writes neither readiness nor session state; readiness,
\* the login service's values and this.ws, which holds nothing, stay as
\* they were, and no socket exists.
C16_FailureFrame ==
  [][event'.type = "fetchFail" =>
       /\ \A k \in 1..Len(effects') :
            effects'[k].op \in {"console.error", "notifications.danger"}
       /\ \E k \in 1..Len(effects') :
            /\ effects'[k].op = "notifications.danger"
            /\ effects'[k].title = "Notifications URL configuration"
       /\ ready' = ready
       /\ login' = login
       /\ ws = Null /\ ws' = Null
       /\ sockets' = sockets /\ DOMAIN sockets' = {}]_vars

\* the resolution failed while the login service had already emitted a
\* token, an auth method and CREATING_USER_SESSION, and the timer had ticked
C16_Witness ==
  /\ event.type = "fetchFail"
  /\ login.token # NoValue
  /\ login.authMethod # NoValue
  /\ login.sessionState = SessionState.CREATING_USER_SESSION
  /\ tick # NoTick
  /\ Calls("notifications.danger") # {}

---------------------------------------------------------------------------
\* The logout signal and the transport error.

\* C17: the step of a logout signal calls ws.complete() on the WebSocket
\* held and nothing else: a socket that was connecting or open is closing
\* afterwards, the other sockets, this.ws, the readiness state and the
\* login service's values are as before; with no WebSocket held the step
\* does nothing.
C17_LogoutFrame ==
  [][event'.type = "loggedOut" =>
       /\ ready' = ready
       /\ login' = login
       /\ ws' = ws
       /\ last' = last
       /\ DOMAIN sockets' = DOMAIN sockets
       /\ \A id \in DOMAIN sockets \ {ws} : sockets'[id] = sockets[id]
       /\ ws = Null => effects' = <<>>
       /\ ws # Null =>
            /\ effects' = <<[op |-> "ws.complete", sock |-> ws]>>
            /\ ws \in DOMAIN sockets =>
                 sockets'[ws] = [state |-> "CLOSING", queue |-> <<>>]]_vars

\* the logout signal found an open connection: it is closing now, and the
\* readiness state is still {ready: true}, the session still USER_SESSION
C17_Witness ==
  /\ event.type = "loggedOut"
  /\ Calls("ws.complete") # {}
  /\ ws \in DOMAIN sockets
  /\ sockets[ws].state = "CLOSING"
  /\ ready = [ready |-> TRUE]
  /\ login.sessionState = SessionState.USER_SESSION

\* C18: the step of a transport error only logs 'WebSocket error': it makes
\* no call on a connection and writes neither readiness nor session state;
\* readiness, the login service's values and this.ws stay as they were, no
\* socket is created and none is removed.
C18_ErrorFrame ==
  [][event'.type = "error" =>
       /\ \A k \in 1..Len(effects') :
            effects'[k].op \in {"console.error", "notifications.danger"}
       /\ \E k \in 1..Len(effects') :
            /\ effects'[k].op = "notifications.danger"
            /\ effects'[k].title = "WebSocket error"
       /\ ready' = ready
       /\ login' = login
       /\ ws' = ws
       /\ last' = last
       /\ DOMAIN sockets' = DOMAIN sockets
       /\ \A id \in DOMAIN sockets \ {event'.sock} :
            sockets'[id] = sockets[id]]_vars

\* the open connection held had a transport error: the readiness state is
\* still {ready: true} and the session still USER_SESSION
C18_Witness ==
  /\ event.type = "error"
  /\ event.sock = ws
  /\ Calls("console.error") # {}
  /\ ready = [ready |-> TRUE]
  /\ login.sessionState = SessionState.USER_SESSION

---------------------------------------------------------------------------
\* The handshake frame.

Handshake == [message |-> "connect"]

\* C19: every WebSocket a handler creates gets exactly one ws.next, of the
\* handshake frame, after its creation and subscription; a connecting socket
\* holds that one frame unsent, a socket in any other state holds none; the
\* only frames ever sent are the handshake of a socket, in the step of its
\* own open event, and that step sends exactly the frame that was queued on
\* that socket.
C19_Handshake ==
  /\ [](/\ \A j \in Calls("webSocket") :
             \E k \in Calls("ws.next") :
               /\ j < k
               /\ effects[k].sock = effects[j].sock
               /\ effects[k].frame = Handshake
               /\ \A l \in Calls("ws.next") : l = k
               /\ \E i \in Calls("ws.subscribe") :
                    j < i /\ i < k /\ effects[i].sock = effects[j].sock
        /\ Calls("ws.next") # {} => Calls("webSocket") # {}
        /\ \A id \in DOMAIN sockets :
             /\ sockets[id].state = "CONNECTING" =>
                  sockets[id].queue = <<Handshake>>
             /\ sockets[id].state # "CONNECTING" => sockets[id].queue = <<>>
        /\ \A k \in Calls("socket.send") :
             /\ event.type = "open"
             /\ effects[k].sock = event.sock
             /\ effects[k].frames = <<Handshake>>
        /\ event.type = "open" => Cardinality(Calls("socket.send")) = 1)
  /\ [][event'.type = "open" =>
          /\ event'.sock \in DOMAIN sockets
          /\ sockets[event'.sock] =
               [state |-> "CONNECTING", queue |-> <<Handshake>>]
          /\ sockets'[event'.sock] = [state |-> "OPEN", queue |-> <<>>]]_vars

\* the replacement of a superseded WebSocket has opened and its handshake
\* was sent on it; the superseded one is closing and sent nothing
C19_Witness ==
  /\ event.type = "open"
  /\ event.sock = 2
  /\ \E k \in Calls("socket.send") : effects[k].sock = 2
  /\ 1 \in DOMAIN sockets
  /\ sockets[1].state = "CLOSING"

---------------------------------------------------------------------------
\* Messages of keys without a notifying handler.

\* the notifications raised with the title of a key of messageKeys
RegisteredCalls ==
  {i \in Calls("notifications.notify") :
     \E key \in DOMAIN messageKeys : effects[i].title = messageKeys[key].title}

\* C20: a message whose category is a key of messageKeys whose entry lacks
\* the body transform or the variant raises no notification at all and is
\* delivered once to every observer of its category; and no message raises
\* both a notification of a key and a fallback notification.
C20_TitleOnly ==
  event.type = "message" =>
    /\ (/\ event.msg.meta.category \in DOMAIN messageKeys
        /\ \/ ~messageKeys[event.msg.meta.category].body
           \/ messageKeys[event.msg.meta.category].variant = Undefined)
         => /\ Calls("notifications.notify") = {}
            /\ \A o \in Subscribed(event.msg.meta.category) :
                 /\ Cardinality(Deliveries(o)) = 1
                 /\ \A i \in Deliveries(o) : effects[i].msg = event.msg
    /\ ~(RegisteredCalls # {} /\ FallbackCalls # {})
    /\ Cardinality(Calls("notifications.notify")) <= 1

\* a GrafanaConfiguration message arrives while an observer is subscribed
\* to that category: it is delivered and no notification is raised
C20_Witness ==
  /\ event.type = "message"
  /\ event.msg.meta.category = "GrafanaConfiguration"
  /\ Subscribed("GrafanaConfiguration") # {}
  /\ \A o \in Subscribed("GrafanaConfiguration") : Deliveries(o) # {}
  /\ Calls("notifications.notify") = {}

====
